---- MODULE Spec2Model ----
(***************************************************************************)
(* State-vector quantum circuit simulator (src/src/core/mod.rs): Gate      *)
(* validation, controlled extension, gate embedding (turn_big) and the     *)
(* Circuit append operations and run.                                      *)
(*                                                                         *)
(* Amplitudes are kept exactly.  Every amplitude that the modelled inputs  *)
(* produce has the form (re + i*im) * s^k with s = 1/sqrt(2), re and im    *)
(* integers and k >= 0; the floating point tolerances of the source        *)
(* (1E-5, 1E-10) are compared against these exact values.                  *)
(*                                                                         *)
(* Notation: { e : x \in {v} } evaluates v once and names its value x in   *)
(* e; The picks the element of such a one-element set.                     *)
(***************************************************************************)
EXTENDS Integers, Sequences, FiniteSets, TLC

\* ------------------------------------------------------------- bounds
\* Largest qubit count of a circuit, and largest qubit index offered.
MaxQubits == 3
\* Largest number of gates a circuit is grown to.
MaxGates == 2

\* ------------------------------------------------- tolerances of the source
\* 1E-5 of is_identity, as its inverse.
IdentityTolInv == 100000
\* 1E-10 of is_unit, as the inverse of its square root.
DetTolInvSqrt == 100000

The(S) == CHOOSE x \in S : x = x

\* ------------------------------------------------------------ scalars (C)
Pow2(n) == 2 ^ n

Even(a) == a % 2 = 0

RECURSIVE Canon(_, _, _)
\* (re + i*im) * s^k in its canonical form: zero has k = 0, and a common
\* factor 2 of re and im is traded for s^2 while k >= 2.
Canon(re, im, k) ==
    IF re = 0 /\ im = 0 THEN [re |-> 0, im |-> 0, k |-> 0]
    ELSE IF k >= 2 /\ Even(re) /\ Even(im)
         THEN Canon(re \div 2, im \div 2, k - 2)
         ELSE [re |-> re, im |-> im, k |-> k]

ONE == Canon(1, 0, 0)
Z == Canon(0, 0, 0)

\* k1 and k2 differ by an even number: a sum of an even and an odd power
\* of s leaves the form g * s^k, and no value is chosen for it.
SamePower(k1, k2) == Even(k1 - k2)

CAdd(x, y) ==
    The({ IF a = Z THEN b
          ELSE IF b = Z THEN a
          ELSE IF a.k = b.k THEN Canon(a.re + b.re, a.im + b.im, a.k)
          ELSE IF a.k > b.k
          THEN CHOOSE r \in { Canon(a.re + b.re * Pow2((a.k - b.k) \div 2),
                                    a.im + b.im * Pow2((a.k - b.k) \div 2), a.k) }
                      : SamePower(a.k, b.k)
          ELSE CHOOSE r \in { Canon(a.re * Pow2((b.k - a.k) \div 2) + b.re,
                                    a.im * Pow2((b.k - a.k) \div 2) + b.im, b.k) }
                      : SamePower(a.k, b.k)
          : a \in {x}, b \in {y} })

CNeg(x) == The({ [re |-> -a.re, im |-> -a.im, k |-> a.k] : a \in {x} })

CSub(x, y) == CAdd(x, CNeg(y))

CMul(x, y) ==
    The({ IF a = Z \/ b = Z THEN Z
          ELSE Canon(a.re * b.re - a.im * b.im, a.re * b.im + a.im * b.re,
                     a.k + b.k)
          : a \in {x}, b \in {y} })

CConj(x) == The({ [re |-> a.re, im |-> -a.im, k |-> a.k] : a \in {x} })

\* The squared magnitude of a is NormSqNum(a) / 2^a.k.
NormSqNum(a) == a.re * a.re + a.im * a.im

CeilDiv(a, b) == (a + b - 1) \div b

\* norm(x) > 1/tinv, that is NormSqNum(x) * tinv^2 > 2^k.
NormGt(x, tinv) ==
    \E a \in {x} : NormSqNum(a) * tinv > Pow2(a.k) \div tinv

\* norm(x) < 1/tinv^2, that is NormSqNum(x) * tinv^4 < 2^k.
NormLt(x, tinv) ==
    \E a \in {x} :
        NormSqNum(a) * tinv
            < CeilDiv(CeilDiv(CeilDiv(Pow2(a.k), tinv), tinv), tinv)

\* ------------------------------------------------------------ matrices
\* The r x c matrix with entry f(i, j) at (i, j), indices from 0.
Mat(r, c, f(_, _)) ==
    The({ [nrows |-> r, ncols |-> c,
           at |-> [i \in 0 .. r - 1 |-> [j \in 0 .. c - 1 |-> f(i, j)]]] })

RECURSIVE SumRange(_, _, _)
\* t(lo) + ... + t(hi-1)
SumRange(t(_), lo, hi) ==
    IF hi <= lo THEN Z
    ELSE IF hi = lo + 1 THEN t(lo)
    ELSE CAdd(SumRange(t, lo, (lo + hi) \div 2),
              SumRange(t, (lo + hi) \div 2, hi))

\* t(0) + ... + t(n-1)
SumTo(t(_), n) == SumRange(t, 0, n)

MatMul(x, y) ==
    The({ LET dot(i, j) ==
                  LET t(l) == CMul(a.at[i][l], b.at[l][j])
                  IN  SumTo(t, a.ncols)
          IN  Mat(a.nrows, b.ncols, dot)
          : a \in {x}, b \in {y} })

adjoint(x) ==
    The({ LET e(i, j) == CConj(m.at[j][i])
          IN  Mat(m.ncols, m.nrows, e)
          : m \in {x} })

identity(n) ==
    LET e(i, j) == IF i = j THEN ONE ELSE Z
    IN  Mat(n, n, e)

RECURSIVE ProdRange(_, _, _)
\* f(lo) * ... * f(hi-1)
ProdRange(f(_), lo, hi) ==
    IF hi <= lo THEN ONE
    ELSE IF hi = lo + 1 THEN f(lo)
    ELSE CMul(ProdRange(f, lo, (lo + hi) \div 2),
              ProdRange(f, (lo + hi) \div 2, hi))

RECURSIVE Expand(_, _, _)
\* The determinant of m restricted to the rows rowset and the columns
\* columns (as many), by expansion along the first of these rows; a zero
\* entry contributes nothing.
Expand(m, rowset, columns) ==
    IF rowset = {} THEN ONE
    ELSE The({ The({ LET term(j) ==
                             IF j \notin nz THEN Z
                             ELSE The({ IF Even(Cardinality({ c \in cols : c < j }))
                                        THEN p ELSE CNeg(p)
                                        : p \in { CMul(m.at[r][j],
                                                       Expand(m, rowset \ {r}, cols \ {j})) } })
                     IN  IF nz = {} THEN Z
                         ELSE IF Cardinality(nz) = 1 THEN term(CHOOSE j \in nz : TRUE)
                         ELSE SumTo(term, m.ncols)
                     : nz \in { { j \in cols : m.at[r][j] # Z } } })
               : cols \in {columns},
                 r \in { CHOOSE q \in rowset : \A o \in rowset : q <= o } })

\* The rows of m that hold one nonzero entry are expanded all at once: they
\* contribute the product of these entries, signed by the parity of the
\* row and column indices and of the inversions among them; the other rows
\* are expanded one by one.
determinant(x) ==
    The({ The({ The({
        IF \E r \in single : \E q \in single : r # q /\ col[r] = col[q]
        THEN Z
        ELSE The({ IF Even( Cardinality({ r \in single : ~ Even(r) })
                           + Cardinality({ r \in single : ~ Even(col[r]) })
                           + Cardinality({ p \in single \X single :
                                             p[1] < p[2] /\ col[p[1]] > col[p[2]] }) )
                   THEN d ELSE CNeg(d)
                   : d \in { CMul(LET f(r) == IF r \in single THEN m.at[r][col[r]] ELSE ONE
                                  IN  ProdRange(f, 0, m.nrows),
                                  Expand(m, (0 .. m.nrows - 1) \ single,
                                         (0 .. m.ncols - 1) \ { col[r] : r \in single })) } })
        : col \in { [r \in single |-> CHOOSE j \in 0 .. m.ncols - 1 : m.at[r][j] # Z] } })
        : single \in { { r \in 0 .. m.nrows - 1 :
                           Cardinality({ j \in 0 .. m.ncols - 1 : m.at[r][j] # Z }) = 1 } } })
        : m \in {x} })

is_identity(x) ==
    \E m \in {x} :
        /\ m.ncols = m.nrows
        /\ \A j \in 0 .. m.ncols - 1 : \A i \in 0 .. m.ncols - 1 :
              IF i = j
              THEN ~ NormGt(CSub(m.at[i][j], ONE), IdentityTolInv)
              ELSE ~ NormGt(m.at[i][j], IdentityTolInv)

is_unit(mat) ==
    \E m \in {mat} :
        /\ ~ NormLt(determinant(m), DetTolInvSqrt)
        /\ is_identity(MatMul(m, adjoint(m)))

\* ---------------------------------------------------------------- Option
None == << >>
Some(x) == << x >>
IsSome(o) == Len(o) = 1
Unwrap(o) == o[1]

\* ------------------------------------------------------------------ Gate
\* bit b of the index x: (x >> b) & 1
Bit(x, b) == (x \div Pow2(b)) % 2

\* HashSet::insert returns false on the second occurrence of a target.
Repeats(targets) ==
    \E i \in 1 .. Len(targets) : \E j \in 1 .. i - 1 : targets[j] = targets[i]

\* Gate::new as it would be without the HashSet loop.
Gate_new_any_targets(mat, targets) ==
    The({ IF m.ncols # m.nrows THEN None
          ELSE IF m.ncols # Pow2(Len(ts)) THEN None
          ELSE IF ~ is_unit(m) THEN None
          ELSE Some([mat |-> m, targets |-> ts])
          : m \in {mat}, ts \in {targets} })

Gate_new(mat, targets) ==
    The({ IF m.ncols # m.nrows THEN None
          ELSE IF m.ncols # Pow2(Len(ts)) THEN None
          ELSE IF ~ is_unit(m) THEN None
          ELSE IF Repeats(ts) THEN None
          ELSE Some([mat |-> m, targets |-> ts])
          : m \in {mat}, ts \in {targets} })

HMat ==
    The({ LET e(i, j) == IF i = 1 /\ j = 1 THEN CNeg(x) ELSE x
          IN  Mat(2, 2, e)
          : x \in { Canon(1, 0, 1) } })

XMat ==
    LET e(i, j) == IF i = j THEN Z ELSE ONE
    IN  Mat(2, 2, e)

Gate_h(target) == Unwrap(Gate_new(HMat, << target >>))

Gate_x(target) == Unwrap(Gate_new(XMat, << target >>))

\* controlled with the operator of self written over the leading block.
controlled_mat_leading(self, controls) ==
    The({ The({ LET e(i, j) ==
                        IF i < old_power /\ j < old_power
                        THEN g.mat.at[i][j]
                        ELSE IF i = j THEN ONE ELSE Z
                IN  Mat(power, power, e)
                : old_power \in { g.mat.ncols },
                  power \in { Pow2(Len(g.targets) + Len(controls)) } })
          : g \in {self} })

\* The identity of dimension 2^(k+c) with its trailing block overwritten
\* by the operator of self.
controlled_mat(self, controls) ==
    The({ The({ LET e(i, j) ==
                        IF i >= power - old_power /\ j >= power - old_power
                        THEN g.mat.at[i - (power - old_power)]
                                     [j - (power - old_power)]
                        ELSE IF i = j THEN ONE ELSE Z
                IN  Mat(power, power, e)
                : old_power \in { g.mat.ncols },
                  power \in { Pow2(Len(g.targets) + Len(controls)) } })
          : g \in {self} })

controlled(self, controls) ==
    The({ Gate_new(controlled_mat(g, controls), g.targets \o controls)
          : g \in {self} })

Gate_cnx(controls, target) == controlled(Gate_x(target), controls)

Gate_cx(control, target) == Gate_cnx(<< control >>, target)

\* Every bit position below n that is no target agrees between row and col.
NonTargetBitsMatch(targets, n, row, col) ==
    \A bit_pos \in 0 .. n - 1 :
        (\A i \in 1 .. Len(targets) : targets[i] # bit_pos)
            => Bit(row, bit_pos) = Bit(col, bit_pos)

RECURSIVE SmallIndexReversed(_, _, _)
\* SmallIndex with the targets taken from the last to the first.
SmallIndexReversed(targets, len, x) ==
    IF len = 0 THEN 0
    ELSE SmallIndexReversed(targets, len - 1, x)
         + Bit(x, targets[Len(targets) + 1 - len]) * Pow2(len - 1)

RECURSIVE SmallIndex(_, _, _)
\* Bit i of the result is bit targets[i] of x, for the first len targets
\* (the source counts the targets from 0, the sequence from 1).
SmallIndex(targets, len, x) ==
    IF len = 0 THEN 0
    ELSE SmallIndex(targets, len - 1, x)
         + Bit(x, targets[len]) * Pow2(len - 1)

\* turn_big as it would be without the test of the non-target bits.
turn_big_unchecked(self, n) ==
    The({ LET e(row, col) ==
                  g.mat.at[SmallIndex(g.targets, Len(g.targets), row)]
                          [SmallIndex(g.targets, Len(g.targets), col)]
          IN  Mat(Pow2(n), Pow2(n), e)
          : g \in {self} })

turn_big(self, n) ==
    The({ LET e(row, col) ==
                  IF ~ NonTargetBitsMatch(g.targets, n, row, col) THEN Z
                  ELSE g.mat.at[SmallIndex(g.targets, Len(g.targets), row)]
                               [SmallIndex(g.targets, Len(g.targets), col)]
          IN  Mat(Pow2(n), Pow2(n), e)
          : g \in {self} })

\* ------------------------------------------------------------------ inputs
\* Qubit indices offered to the operations: the three lowest, and the first
\* index that is out of range for every circuit.
Qubit == { 0, 1, 2, MaxQubits }

\* Control lists offered to cnx and controlled.
ControlLists ==
    { << >>, << 0, 1 >>, << 1, 0 >>, << 1, 1 >>, << 2, 0 >>, << 0, MaxQubits >> }

\* The calls << control, target >> offered to Circuit::cx: distinct indices
\* in both orders, a control that is the target, an index out of range on
\* either side.
CxCalls ==
    { << 0, 1 >>, << 1, 0 >>, << 1, 2 >>, << 0, 0 >>,
      << 0, MaxQubits >>, << MaxQubits, 1 >> }

\* The calls << controls, target >> offered to Circuit::cnx: no control, two
\* controls in both orders, a repeated control, a control that is the
\* target, an index out of range on either side.
CnxCalls ==
    { << << >>, 0 >>, << << 0, 1 >>, 2 >>, << << 1, 0 >>, 2 >>,
      << << 1, 1 >>, 0 >>, << << 0, 1 >>, 1 >>, << << 0, 1 >>, MaxQubits >>,
      << << 0, MaxQubits >>, 1 >> }

OneMat == identity(1)

\* The rotation by a quarter of a turn: a unitary operator that is not
\* symmetric.
RotMat ==
    LET e(i, j) == IF i = j THEN Z ELSE IF i = 0 THEN CNeg(ONE) ELSE ONE
    IN  Mat(2, 2, e)

\* Exchanges the two bits of the small index.
SwapMat ==
    LET e(i, j) == IF i = 2 * (j % 2) + (j \div 2) THEN ONE ELSE Z
    IN  Mat(4, 4, e)

\* Operators that construction must refuse: not square, of a dimension that
\* is no power of two, singular, or not norm preserving.
RejectedMats ==
    { Mat(2, 3, LAMBDA i, j : IF i = j THEN ONE ELSE Z),
      identity(3),
      Mat(2, 2, LAMBDA i, j : ONE),
      Mat(2, 2, LAMBDA i, j : IF i = 1 /\ j = 0 THEN Z ELSE ONE),
      Mat(2, 2, LAMBDA i, j : IF i = j THEN Canon(2, 0, 0) ELSE Z),
      Mat(2, 2, LAMBDA i, j : IF i = j THEN Canon(1, 0, 1) ELSE Z) }

Mats == { OneMat, HMat, XMat, RotMat, SwapMat } \cup RejectedMats

TargetLists ==
    { << >>, << 0 >>, << 1 >>, << MaxQubits >>, << 0, 1 >>, << 1, 0 >>,
      << 0, 0 >>, << 2, 1 >> }

\* Gates a caller of add_gate can hold: built by Gate::new or by controlled.
AddGateMenu ==
    { Unwrap(o) :
        o \in { b \in { Gate_new(RotMat, << 0 >>), Gate_new(RotMat, << MaxQubits >>),
                        Gate_new(SwapMat, << 0, 1 >>),
                        controlled(Unwrap(Gate_new(RotMat, << 0 >>)), << 1 >>) }
                : IsSome(b) } }

\* The gate constructors on the offered inputs, each value computed once.
HOf == [target \in Qubit |-> Gate_h(target)]
XOf == [target \in Qubit |-> Gate_x(target)]
CnxOf == [c \in CnxCalls |-> Gate_cnx(c[1], c[2])]
CxOf == [c \in CxCalls |-> Gate_cx(c[1], c[2])]

\* Every gate an append operation can hand to a circuit.
CircuitGates ==
    { HOf[t] : t \in Qubit } \cup { XOf[t] : t \in Qubit } \cup AddGateMenu
    \cup { Unwrap(o) : o \in { b \in { CxOf[c] : c \in CxCalls }
                                    \cup { CnxOf[c] : c \in CnxCalls }
                               : IsSome(b) } }

\* turn_big on those gates, each value computed once.
BigOf == [g \in CircuitGates |-> [n \in 0 .. MaxQubits |-> turn_big(g, n)]]

\* --------------------------------------------------------------- Circuit
Circuit_new(n) == [qubits |-> n, gates |-> << >>]

\* get_vec with a vector of ones in place of Col::zeros.
get_vec_ones(self, i) ==
    The({ IF i >= size THEN None
          ELSE Some([l \in 0 .. size - 1 |-> ONE])
          : size \in { Pow2(self.qubits) } })

get_vec(self, i) ==
    The({ IF i >= size THEN None
          ELSE Some([l \in 0 .. size - 1 |-> IF l = i THEN ONE ELSE Z])
          : size \in { Pow2(self.qubits) } })

\* g * current
MatVec(x, y) ==
    The({ [i \in 0 .. g.nrows - 1 |->
              LET t(l) == CMul(g.at[i][l], current[l])
              IN  SumTo(t, g.ncols)]
          : g \in {x}, current \in {y} })

RECURSIVE Digits(_)
\* The binary digits of i, most significant first; "0" for 0.
Digits(i) ==
    IF i < 2 THEN << IF i = 1 THEN "1" ELSE "0" >>
    ELSE Append(Digits(i \div 2), IF i % 2 = 1 THEN "1" ELSE "0")

RECURSIVE PadLeft(_, _)
PadLeft(s, width) ==
    IF Len(s) >= width THEN s ELSE PadLeft(<< "0" >> \o s, width)

\* format!("{:0width$b}", i, width = width), as the sequence of its
\* characters: at least width of them, zeros added on the left.
format_bin(i, width) == PadLeft(Digits(i), width)

RECURSIVE EvolveLastFirst(_, _, _)
\* The loop of run taken over the gates from the last to the first.
EvolveLastFirst(gs, n, v) ==
    The({ IF gs = << >> THEN current
          ELSE EvolveLastFirst(SubSeq(gs, 1, Len(gs) - 1), n,
                               MatVec(BigOf[gs[Len(gs)]][n], current))
          : current \in {v} })

RECURSIVE Evolve(_, _, _)
\* The loop of run: current after the gates of gs, first to last.
Evolve(gs, n, v) ==
    The({ IF gs = << >> THEN current
          ELSE Evolve(Tail(gs), n, MatVec(BigOf[Head(gs)][n], current))
          : current \in {v} })

\* The HashMap after the entries 0 .. upto - 1 of current are inserted
\* in this order under their labels: a later insert under a key replaces
\* an earlier one.
Collect(current, upto, width) ==
    The({ [l \in { key[i] : i \in 0 .. upto - 1 } |->
              current[CHOOSE i \in 0 .. upto - 1 :
                          /\ key[i] = l
                          /\ \A j \in 0 .. upto - 1 : key[j] = l => j <= i]]
          : key \in { [i \in 0 .. upto - 1 |-> format_bin(i, width)] } })

\* Result<_, ()>: the map of an Ok(()) is empty.
Err == [ok |-> FALSE, map |-> << >>]
Ok(m) == [ok |-> TRUE, map |-> m]

run(self) ==
    The({ IF ~ IsSome(start) THEN Err
          ELSE The({ Ok(Collect(current, Cardinality(DOMAIN current), self.qubits))
                     : current \in { Evolve(self.gates, self.qubits,
                                            Unwrap(start)) } })
          : start \in { get_vec(self, 0) } })

\* ------------------------------------------------------------------ state
VARIABLES
    qubits,       \* Circuit.qubits
    gates,        \* Circuit.gates
    call,         \* the last Circuit operation called and the qubit indices it names
    ret,          \* what that operation returned
    new_mat,      \* the operator handed to the last Gate::new
    new_targets,  \* the target list handed to the last Gate::new
    built,        \* the Option<Gate> that Gate::new returned
    big           \* the last result of turn_big on the built gate, with its n

vars == << qubits, gates, call, ret, new_mat, new_targets, built, big >>
circuit_vars == << qubits, gates, call, ret >>
gate_vars == << new_mat, new_targets, built, big >>

\* ------------------------------------------------------- Circuit operations
Init ==
    /\ qubits \in 0 .. MaxQubits
    /\ gates = Circuit_new(qubits).gates
    /\ call = [op |-> "new", refs |-> << >>]
    /\ ret = Ok(<< >>)
    /\ new_mat = OneMat
    /\ new_targets = << >>
    /\ built = None
    /\ big = None

Circuit_h(target) ==
    /\ Len(gates) < MaxGates
    /\ call' = [op |-> "h", refs |-> << target >>]
    /\ IF target >= qubits
       THEN ret' = Err /\ gates' = gates
       ELSE gates' = Append(gates, HOf[target]) /\ ret' = Ok(<< >>)
    /\ UNCHANGED << qubits, gate_vars >>

Circuit_x(target) ==
    /\ Len(gates) < MaxGates
    /\ call' = [op |-> "x", refs |-> << target >>]
    /\ IF target >= qubits
       THEN ret' = Err /\ gates' = gates
       ELSE gates' = Append(gates, XOf[target]) /\ ret' = Ok(<< >>)
    /\ UNCHANGED << qubits, gate_vars >>

\* Circuit::cx with > in place of >= in its range test.
Circuit_cx_off_by_one(control, target) ==
    /\ Len(gates) < MaxGates
    /\ call' = [op |-> "cx", refs |-> << target, control >>]
    /\ IF target > qubits \/ control > qubits
       THEN ret' = Err /\ gates' = gates
       ELSE \E g \in { CxOf[<< control, target >>] } :
               IF ~ IsSome(g)
               THEN ret' = Err /\ gates' = gates
               ELSE gates' = Append(gates, Unwrap(g)) /\ ret' = Ok(<< >>)
    /\ UNCHANGED << qubits, gate_vars >>

Circuit_cx(control, target) ==
    /\ Len(gates) < MaxGates
    /\ call' = [op |-> "cx", refs |-> << target, control >>]
    /\ IF target >= qubits \/ control >= qubits
       THEN ret' = Err /\ gates' = gates
       ELSE \E g \in { CxOf[<< control, target >>] } :
               IF ~ IsSome(g)
               THEN ret' = Err /\ gates' = gates
               ELSE gates' = Append(gates, Unwrap(g)) /\ ret' = Ok(<< >>)
    /\ UNCHANGED << qubits, gate_vars >>

Circuit_cnx(controls, target) ==
    /\ Len(gates) < MaxGates
    /\ call' = [op |-> "cnx", refs |-> << target >> \o controls]
    /\ IF target >= qubits
          \/ \E i \in 1 .. Len(controls) : controls[i] >= qubits
       THEN ret' = Err /\ gates' = gates
       ELSE \E g \in { CnxOf[<< controls, target >>] } :
               IF ~ IsSome(g)
               THEN ret' = Err /\ gates' = gates
               ELSE gates' = Append(gates, Unwrap(g)) /\ ret' = Ok(<< >>)
    /\ UNCHANGED << qubits, gate_vars >>

\* Circuit::add_gate without its range test.
Circuit_add_gate_unchecked(g) ==
    /\ Len(gates) < MaxGates
    /\ call' = [op |-> "add_gate", refs |-> g.targets]
    /\ gates' = Append(gates, g) /\ ret' = Ok(<< >>)
    /\ UNCHANGED << qubits, gate_vars >>

Circuit_add_gate(g) ==
    /\ Len(gates) < MaxGates
    /\ call' = [op |-> "add_gate", refs |-> g.targets]
    /\ IF \E i \in 1 .. Len(g.targets) : g.targets[i] >= qubits
       THEN ret' = Err /\ gates' = gates
       ELSE gates' = Append(gates, g) /\ ret' = Ok(<< >>)
    /\ UNCHANGED << qubits, gate_vars >>

Circuit_run ==
    /\ call' = [op |-> "run", refs |-> << >>]
    /\ ret' = run([qubits |-> qubits, gates |-> gates])
    /\ UNCHANGED << qubits, gates, gate_vars >>

Next ==
    \/ \E target \in Qubit : Circuit_h(target)
    \/ \E target \in Qubit : Circuit_x(target)
    \/ \E c \in CxCalls : Circuit_cx(c[1], c[2])
    \/ \E c \in CnxCalls : Circuit_cnx(c[1], c[2])
    \/ \E g \in AddGateMenu : Circuit_add_gate(g)
    \/ Circuit_run

Spec == Init /\ [][Next]_vars

\* ---------------------------------------------------------- Gate operations
\* A caller that builds gates and embeds them, without a circuit.
GateInit ==
    /\ qubits = 0
    /\ gates = Circuit_new(qubits).gates
    /\ call = [op |-> "new", refs |-> << >>]
    /\ ret = Ok(<< >>)
    /\ new_mat = OneMat
    /\ new_targets = << >>
    /\ built = Gate_new(OneMat, << >>)
    /\ big = None

\* Gate::new on the offered inputs, each value computed once.
NewOf == [m \in Mats, ts \in TargetLists |-> Gate_new(m, ts)]

New(mat, targets) ==
    /\ new_mat' = mat
    /\ new_targets' = targets
    /\ built' = NewOf[mat, targets]
    /\ big' = None
    /\ UNCHANGED circuit_vars

H(target) ==
    /\ new_mat' = HMat
    /\ new_targets' = << target >>
    /\ built' = Some(HOf[target])
    /\ big' = None
    /\ UNCHANGED circuit_vars

X(target) ==
    /\ new_mat' = XMat
    /\ new_targets' = << target >>
    /\ built' = Some(XOf[target])
    /\ big' = None
    /\ UNCHANGED circuit_vars

\* The gates the constructors hand out on the offered inputs.
GateSeeds ==
    { Unwrap(o) : o \in { b \in { NewOf[m, ts] : m \in Mats, ts \in TargetLists }
                                 \cup { CnxOf[c] : c \in CnxCalls }
                                 \cup { CxOf[c] : c \in CxCalls } : IsSome(b) } }
    \cup { HOf[q] : q \in Qubit } \cup { XOf[q] : q \in Qubit }

\* S and the gates that controlled makes of the gates of S.
ControlledStep(S) ==
    S \cup { Unwrap(o) :
               o \in { b \in { controlled(p[1], p[2]) :
                                  p \in { q \in S \X ControlLists :
                                            Len(q[1].targets) + Len(q[2]) <= MaxQubits } }
                        : IsSome(b) } }

RECURSIVE ControlledClosure(_)
ControlledClosure(S) ==
    The({ IF T = S THEN S ELSE ControlledClosure(T) : T \in { ControlledStep(S) } })

\* Every gate a sequence of constructor calls can leave built.
BuiltGates == ControlledClosure(GateSeeds)

\* controlled on every such gate, each value computed once.
ControlledOf ==
    [g \in BuiltGates |->
        [c \in ControlLists |->
            IF Len(g.targets) + Len(c) <= MaxQubits
            THEN [mat |-> controlled_mat(g, c), gate |-> controlled(g, c)]
            ELSE [mat |-> g.mat, gate |-> None]]]

\* turn_big on every such gate, each value computed once.
BuiltBigOf == [g \in BuiltGates |-> [n \in 0 .. MaxQubits |-> turn_big(g, n)]]

\* self.controlled(controls) on the gate the caller holds; the guard keeps
\* the operator within the largest dimension modelled.
Controlled(controls) ==
    /\ IsSome(built)
    /\ Len(Unwrap(built).targets) + Len(controls) <= MaxQubits
    /\ new_mat' = ControlledOf[Unwrap(built)][controls].mat
    /\ new_targets' = Unwrap(built).targets \o controls
    /\ built' = ControlledOf[Unwrap(built)][controls].gate
    /\ big' = None
    /\ UNCHANGED circuit_vars

Cnx(controls, target) ==
    /\ new_mat' = controlled_mat(XOf[target], controls)
    /\ new_targets' = XOf[target].targets \o controls
    /\ built' = CnxOf[<< controls, target >>]
    /\ big' = None
    /\ UNCHANGED circuit_vars

Cx(control, target) ==
    /\ new_mat' = controlled_mat(XOf[target], << control >>)
    /\ new_targets' = XOf[target].targets \o << control >>
    /\ built' = CxOf[<< control, target >>]
    /\ big' = None
    /\ UNCHANGED circuit_vars

TurnBig(n) ==
    /\ IsSome(built)
    /\ big' = Some([n |-> n, mat |-> BuiltBigOf[Unwrap(built)][n]])
    /\ UNCHANGED << new_mat, new_targets, built, circuit_vars >>

NextGate ==
    \/ \E mat \in Mats, targets \in TargetLists : New(mat, targets)
    \/ \E target \in Qubit : H(target)
    \/ \E target \in Qubit : X(target)
    \/ \E controls \in ControlLists : Controlled(controls)
    \/ \E c \in CnxCalls : Cnx(c[1], c[2])
    \/ \E c \in CxCalls : Cx(c[1], c[2])
    \/ \E n \in 0 .. MaxQubits : TurnBig(n)

SpecGate == GateInit /\ [][NextGate]_vars

\* ------------------------------------------------------------------ claims
Range(s) == { s[i] : i \in 1 .. Len(s) }

AppendOps == { "h", "x", "cx", "cnx", "add_gate" }

RECURSIVE BinValue(_)
\* The number a sequence of binary digits writes, most significant first.
BinValue(l) ==
    IF l = << >> THEN 0
    ELSE 2 * BinValue(SubSeq(l, 1, Len(l) - 1)) + (IF l[Len(l)] = "1" THEN 1 ELSE 0)

\* The state vector a result mapping reports: entry i is the amplitude
\* under the key that writes i.
Reported(m) ==
    [i \in 0 .. Cardinality(DOMAIN m) - 1 |->
        m[CHOOSE l \in DOMAIN m : BinValue(l) = i]]

\* The label of index i on n qubits: qubit 0 is the rightmost character.
LabelOf(i, n) == [p \in 1 .. n |-> IF Bit(i, n - p) = 1 THEN "1" ELSE "0"]

\* C1: Gate::new returns None exactly when the operator is not square, or
\* its dimension is not 2^(number of targets), or a target index is
\* repeated, or the operator fails is_unit; otherwise it returns the gate
\* that holds the given operator and the given targets in the given order.
C1_GateNewRefusesExactlyTheInvalid ==
    IF \/ new_mat.ncols # new_mat.nrows
       \/ new_mat.nrows # 2 ^ Len(new_targets)
       \/ Cardinality(Range(new_targets)) # Len(new_targets)
       \/ ~ is_unit(new_mat)
    THEN built = None
    ELSE built = Some([mat |-> new_mat, targets |-> new_targets])

\* Gate::new was handed a unitary 4 x 4 operator with the targets [0, 0].
C1_Witness ==
    /\ new_mat = SwapMat
    /\ new_targets = << 0, 0 >>
    /\ built = None

\* C2: an append operation that names a qubit index >= n, or whose gate
\* fails construction (cx and cnx with a control equal to the target or a
\* repeated control), returns Err and leaves the gate sequence and the
\* qubit count as they were.
C2_FailedAppendLeavesCircuit ==
    [][ ( /\ call'.op \in AppendOps
          /\ \/ \E i \in 1 .. Len(call'.refs) : call'.refs[i] >= qubits
             \/ /\ call'.op \in { "cx", "cnx" }
                /\ Cardinality(Range(call'.refs)) # Len(call'.refs) )
        => ( ~ ret'.ok /\ gates' = gates /\ qubits' = qubits ) ]_vars

\* cx(0, 0) was refused on a two-qubit circuit that already holds a gate.
C2_Witness ==
    /\ qubits = 2
    /\ gates # << >>
    /\ call = [op |-> "cx", refs |-> << 0, 0 >>]
    /\ ~ ret.ok

\* C3: run applies the gates in append order to the all-zero basis state:
\* its result for no gate is e_0, its result for g_1 .. g_m is embed(g_m)
\* applied to its result for g_1 .. g_(m-1); x(0); cx(0,1) and cx(0,1); x(0)
\* on two qubits give different results.
C3_RunAppliesGatesInAppendOrder ==
    (call.op = "run" /\ ret.ok) =>
        /\ IF gates = << >>
           THEN Reported(ret.map) = [i \in 0 .. 2 ^ qubits - 1 |-> IF i = 0 THEN ONE ELSE Z]
           ELSE Reported(ret.map)
                = MatVec(turn_big(gates[Len(gates)], qubits),
                         Reported(run([qubits |-> qubits,
                                       gates |-> SubSeq(gates, 1, Len(gates) - 1)]).map))
        /\ (qubits = 2 /\ gates = << Gate_x(0), Unwrap(Gate_cx(0, 1)) >>)
               => ret.map # run([qubits |-> 2,
                                 gates |-> << Unwrap(Gate_cx(0, 1)), Gate_x(0) >>]).map

\* run returned for x(0); cx(0,1) on two qubits, with amplitude 1 at "11".
C3_Witness ==
    /\ call.op = "run" /\ ret.ok
    /\ qubits = 2
    /\ gates = << Gate_x(0), Unwrap(Gate_cx(0, 1)) >>
    /\ ret.map[<< "1", "1" >>] = ONE

\* C4: every gate a circuit holds has its targets in [0, n) and pairwise
\* distinct.
C4_GatesStayInRange ==
    \A i \in 1 .. Len(gates) :
        /\ \A t \in Range(gates[i].targets) : t >= 0 /\ t < qubits
        /\ Cardinality(Range(gates[i].targets)) = Len(gates[i].targets)

\* add_gate was refused on a circuit that holds a gate on two qubits.
C4_Witness ==
    /\ call.op = "add_gate" /\ ~ ret.ok
    /\ gates # << >>
    /\ Len(gates[1].targets) = 2

\* C5: when run succeeds on n qubits the result has exactly 2^n entries,
\* its keys are exactly the binary strings of length n, and the entry under
\* the width-n label of i is the amplitude of index i of the final state.
C5_ResultShape ==
    (call.op = "run" /\ ret.ok) =>
        /\ Cardinality(DOMAIN ret.map) = 2 ^ qubits
        /\ DOMAIN ret.map = { LabelOf(i, qubits) : i \in 0 .. 2 ^ qubits - 1 }
        /\ \A i \in 0 .. 2 ^ qubits - 1 :
              ret.map[LabelOf(i, qubits)]
              = Evolve(gates, qubits,
                       [l \in 0 .. 2 ^ qubits - 1 |-> IF l = 0 THEN ONE ELSE Z])[i]

\* C6: the operator turn_big(n) makes of an accepted gate, for n above all
\* its targets, times its adjoint is the identity within 1E-5.
C6_EmbeddingIsUnitary ==
    ( /\ IsSome(built) /\ IsSome(big)
      /\ \A t \in Range(Unwrap(built).targets) : t < Unwrap(big).n )
    => is_identity(MatMul(Unwrap(big).mat, adjoint(Unwrap(big).mat)))

\* A gate on two targets was embedded into the largest system.
C6_Witness ==
    /\ IsSome(built) /\ IsSome(big)
    /\ Len(Unwrap(built).targets) = 2
    /\ Unwrap(big).n = MaxQubits
    /\ \A t \in Range(Unwrap(built).targets) : t < Unwrap(big).n

\* The squared magnitudes of v, summed, as a number over 2^k.
NormSqOver(v, k) ==
    LET t(i) == [re |-> NormSqNum(v[i]) * Pow2(k - v[i].k), im |-> 0, k |-> 0]
    IN  SumTo(t, Cardinality(DOMAIN v)).re

C8_RunFailsOnZeroQubits ==
    (call.op = "run" /\ qubits = 0) => ~ ret.ok

\* The small index of x: bit i is bit targets[i+1] of x.
SubIndex(targets, x) ==
    CHOOSE s \in 0 .. 2 ^ Len(targets) - 1 :
        \A i \in 1 .. Len(targets) : Bit(s, i - 1) = Bit(x, targets[i])

\* C9: for a gate with operator U and distinct targets all < n, turn_big(n)
\* is the 2^n x 2^n matrix whose entry (row, col) is 0 when row and col
\* differ in a bit that is no target, and U[sr, sc] otherwise, bit i of sr
\* and sc being bit t_i of row and col; for one target on qubit 0 of two
\* qubits it is diag(U, U).
C9_EmbeddingActsOnTargetsOnly ==
    ( /\ IsSome(built) /\ IsSome(big)
      /\ \A t \in Range(Unwrap(built).targets) : t < Unwrap(big).n )
    => \E g \in { Unwrap(built) } : \E b \in { Unwrap(big) } :
          /\ b.mat.nrows = 2 ^ b.n /\ b.mat.ncols = 2 ^ b.n
          /\ \A row \in 0 .. 2 ^ b.n - 1 : \A col \in 0 .. 2 ^ b.n - 1 :
                b.mat.at[row][col]
                = IF \E p \in (0 .. b.n - 1) \ Range(g.targets) :
                         Bit(row, p) # Bit(col, p)
                  THEN Z
                  ELSE g.mat.at[SubIndex(g.targets, row)][SubIndex(g.targets, col)]
          /\ (g.targets = << 0 >> /\ b.n = 2) =>
                \A row \in 0 .. 3 : \A col \in 0 .. 3 :
                    b.mat.at[row][col]
                    = IF row \div 2 = col \div 2
                      THEN g.mat.at[row % 2][col % 2] ELSE Z

\* cx(0, 1), whose targets are [1, 0], was embedded into three qubits.
C9_Witness ==
    /\ IsSome(built) /\ IsSome(big)
    /\ Unwrap(built).targets = << 1, 0 >>
    /\ Unwrap(built).mat = controlled_mat(Gate_x(1), << 0 >>)
    /\ Unwrap(big).n = 3

\* The basis state cx / cnx must send b to: bit t flipped when every
\* control bit of b is 1, b itself otherwise.
Flipped(b, t, controls) ==
    IF \A c \in Range(controls) : Bit(b, c) = 1
    THEN (IF Bit(b, t) = 1 THEN b - 2 ^ t ELSE b + 2 ^ t)
    ELSE b

\* C10: the gate cx(control, t) / cnx(controls, t) appends to an n-qubit
\* circuit sends every basis state b to b with bit t flipped when all
\* control bits of b are 1 and to b otherwise; h(0); cx(0, 1) on two qubits
\* runs to the Bell state on the labels 00 and 11.
C10_ControlledXFlipsTargetUnderControls ==
    /\ (call.op \in { "cx", "cnx" } /\ ret.ok) =>
          \E m \in { turn_big(gates[Len(gates)], qubits) } :
              \A b \in 0 .. 2 ^ qubits - 1 : \A r \in 0 .. 2 ^ qubits - 1 :
                  m.at[r][b]
                  = IF r = Flipped(b, call.refs[1], Tail(call.refs)) THEN ONE ELSE Z
    /\ ( /\ call.op = "run" /\ qubits = 2
         /\ gates = << Gate_h(0), Unwrap(Gate_cx(0, 1)) >> )
       => ret.map = [l \in { LabelOf(i, 2) : i \in 0 .. 3 } |->
                        IF l \in { << "0", "0" >>, << "1", "1" >> }
                        THEN Canon(1, 0, 1) ELSE Z]

\* cnx with the two controls 0 and 1 and the target 2 was appended.
C10_Witness ==
    /\ call = [op |-> "cnx", refs |-> << 2, 0, 1 >>]
    /\ ret.ok
    /\ qubits = 3

====
